---- MODULE Spec2Model ----
(***************************************************************************)
(* Model of the game simulation of src/src/components/FlappyBird.tsx (the  *)
(* snake variant, lines 1-857): the GameState record, the held-key set,    *)
(* the key handlers, resetGame, the deferred isEating reset and the        *)
(* setInterval game loop (one action per tick).                            *)
(*                                                                         *)
(* Units: positions are pixels (integers; the random draws are taken from  *)
(* small sets of integer values), portalTimer is kept in milliseconds      *)
(* (10 s = 10000, one frame = 16), and the 0.3 / 0.7 portal-window         *)
(* fractions are compared after multiplying both sides by 10.              *)
(***************************************************************************)
EXTENDS Integers, Sequences, FiniteSets, TLC

\* ------------------------------------------------------------------------
\* Program constants (FlappyBird.tsx lines 31-38 and literals of the loop)
BIRD_SIZE == 30
PIPE_WIDTH == 60
INITIAL_PIPE_GAP == 250
MIN_PIPE_GAP == 120
MOVE_SPEED == 4
PIPE_SPEED == 2
SEGMENT_FOLLOW_DISTANCE == 25
MAX_X == 370
MAX_Y == 470
START_X == 200
START_Y == 250
SPAWN_X == 400
SPAWN_THRESHOLD == 200
ENTRY_BONUS == 5
FROG_COUNT == 12
FROG_RADIUS == 25
FROG_REWARD == 2
EXIT_RADIUS == 30
MAX_SEGMENTS == 10
GAP_STEP == 15
FRAME_MS == 16
PORTAL_SECONDS == 10
PortalTimerInit == PORTAL_SECONDS * 1000

\* ------------------------------------------------------------------------
\* Bounds of the model (not program constants)
MaxPipes == 2          \* pipes spawned per game
MaxKeyEvents == 2      \* effective key events (down or up) per run
MaxPending == 1        \* deferred isEating resets in flight
MaxDelay == 2          \* ticks that may run before a pending deferred reset does
MaxScore == 120        \* largest score fed to the gap function

\* Instants (ticks since the start of the game) at which key events are sampled:
\* the start, right after an early exit, and late in a session
KeyClocks == {0, 30, 740, 744}

\* Values the random draws are taken from
TopHeights == {50, 150}
ExitPoints == {<<200, 250>>, <<300, 250>>}
FrogSpots == {<<200, 250>>}

\* Keys of the keyboard events (e.key)
KeyInputs == {"w", "a", "s", "d", "D", "p"}
\* variant: p is taken for a movement key as well
MoveKeysWithP == {"w", "a", "s", "d", "p"}
MoveKeys == {"w", "a", "s", "d"}

ToLowerCase(k) == IF k = "D" THEN "d" ELSE k

\* null (portalExit, enteredPortal)
Null == [null |-> TRUE]

\* lastKey when the last operation was no keyboard event
NoKey == "none"

VARIABLES
  birdX, birdY, birdDirection, bodySegments, pipes, coins, gameStarted,
  gameOver, inSpecialWorld, worldCoins, colorTheme, portalTimer, portalExit,
  enteredPortal, frogsEaten, isEating, usedPortalIds,
  pressedKeys,      \* the second useState: keys currently held
  pendingResets,    \* setTimeout callbacks scheduled and not yet run
  nextPipeId,       \* stands for the fresh `pipe-${Date.now()}-${Math.random()}`
  clock,            \* ticks since the game started (history)
  keyEvents,        \* effective key events taken so far (history, kept across resetGame)
  pendingAge,       \* ticks run since the oldest pending callback was scheduled
  lastOp,           \* kind of the last operation applied (history)
  triggerPortal,    \* the pipe whose window triggered the current session (history)
  lastKey,          \* e.key of the keyboard event, if the last operation was one (history)
  ext               \* state of the features described for the complete variant only

gameVars == <<birdX, birdY, birdDirection, bodySegments, pipes, coins, gameStarted,
              gameOver, inSpecialWorld, worldCoins, colorTheme, portalTimer,
              portalExit, enteredPortal, frogsEaten, isEating, usedPortalIds>>
vars == <<gameVars, pressedKeys, pendingResets, pendingAge, nextPipeId, clock, keyEvents,
          lastOp, triggerPortal, lastKey, ext>>

\* ------------------------------------------------------------------------
\* Pure helpers

Max(a, b) == IF a > b THEN a ELSE b
Min(a, b) == IF a < b THEN a ELSE b

\* variant: the upper limit is not applied
ClampLowerOnly(hi, v) == Max(0, v)

\* Math.max(0, Math.min(hi, v))
Clamp(hi, v) == Max(0, Min(hi, v))

\* Math.floor(a / b) for b > 0
FloorDiv(a, b) == a \div b

\* variant: the reduction is not floored at MIN_PIPE_GAP
getCurrentPipeGapUnfloored(c) == INITIAL_PIPE_GAP - FloorDiv(c, 10) * GAP_STEP

getCurrentPipeGap(c) ==
  LET reduction == FloorDiv(c, 10) * GAP_STEP
  IN  Max(MIN_PIPE_GAP, INITIAL_PIPE_GAP - reduction)

getCurrentTheme(c) == FloorDiv(c, 20)

\* direction from the held keys, in the code's evaluation order
\* variant: w wins over s
DirectionYUpWins(keys) ==
  IF "w" \in keys THEN -MOVE_SPEED ELSE IF "s" \in keys THEN MOVE_SPEED ELSE 0

DirectionY(keys) ==
  IF "s" \in keys THEN MOVE_SPEED ELSE IF "w" \in keys THEN -MOVE_SPEED ELSE 0
DirectionX(keys) ==
  IF "d" \in keys THEN MOVE_SPEED ELSE IF "a" \in keys THEN -MOVE_SPEED ELSE 0

\* squared distance (Math.pow(..,2) + Math.pow(..,2))
Dist2(x1, y1, x2, y2) == (x1 - x2) * (x1 - x2) + (y1 - y2) * (y1 - y2)

\* distance < r, for integer coordinates
Within(x1, y1, x2, y2, r) == Dist2(x1, y1, x2, y2) < r * r


\* ------------------------------------------------------------------------
\* updateBodySegments.  Segment coordinates are kept as integer pixels: the
\* product d * (SEGMENT_FOLLOW_DISTANCE / distance) is truncated toward zero,
\* with the square root taken to 1/16 pixel and rounded up, so the rounding
\* of the model never lengthens a link beyond the follow distance.

RECURSIVE IsqrtIter(_, _, _)
IsqrtIter(n, lo, hi) ==
  IF lo >= hi THEN lo
  ELSE LET mid == (lo + hi + 1) \div 2
       IN  IF mid * mid <= n THEN IsqrtIter(n, mid, hi) ELSE IsqrtIter(n, lo, mid - 1)

\* floor(sqrt(n)), n < 2^31
Isqrt(n) == IsqrtIter(n, 0, Min(n, 46340))

\* ceiling(sqrt(n))
CeilSqrt(n) == LET r == Isqrt(n) IN IF r * r = n THEN r ELSE r + 1

\* a / b truncated toward zero, b > 0
TruncDiv(a, b) == IF a >= 0 THEN a \div b ELSE -((-a) \div b)

\* one follower: `target` chases the position (px, py) of its predecessor
FollowSegment(px, py, target) ==
  LET dx == px - target.x
      dy == py - target.y
      d2 == dx * dx + dy * dy
      dist16 == CeilSqrt(d2 * 256)
  IN  IF d2 > SEGMENT_FOLLOW_DISTANCE * SEGMENT_FOLLOW_DISTANCE
      THEN [x |-> px - TruncDiv(dx * SEGMENT_FOLLOW_DISTANCE * 16, dist16),
            y |-> py - TruncDiv(dy * SEGMENT_FOLLOW_DISTANCE * 16, dist16)]
      ELSE [x |-> target.x, y |-> target.y]

RECURSIVE BuildSegments(_, _, _, _, _)
BuildSegments(headX, headY, currentSegments, targetSegmentCount, newSegments) ==
  IF Len(newSegments) >= targetSegmentCount THEN newSegments
  ELSE
    LET i == Len(newSegments)
        pos ==
          IF i = 0
          THEN IF Len(currentSegments) > 0
               THEN FollowSegment(headX, headY, currentSegments[1])
               ELSE [x |-> headX - SEGMENT_FOLLOW_DISTANCE, y |-> headY]
          ELSE LET prevSegment == newSegments[i]
                   targetSegment ==
                     IF i + 1 <= Len(currentSegments)
                     THEN currentSegments[i + 1]
                     ELSE [x |-> prevSegment.x - SEGMENT_FOLLOW_DISTANCE,
                           y |-> prevSegment.y]
               IN  FollowSegment(prevSegment.x, prevSegment.y, targetSegment)
    IN  BuildSegments(headX, headY, currentSegments, targetSegmentCount,
                      Append(newSegments, [x |-> pos.x, y |-> pos.y, id |-> i]))

updateBodySegments(headX, headY, currentSegments, eaten) ==
  BuildSegments(headX, headY, currentSegments, Min(MAX_SEGMENTS, eaten), <<>>)

\* ------------------------------------------------------------------------
\* Constructors of the random content

\* generateWorldCoins: FROG_COUNT uncollected frogs.  The layout is named by
\* the spot of its first frog; the second sits 10 px beside it, the third 10 px
\* below it, and the rest lie in a row near the bottom of the arena.
generateWorldCoins(spot) ==
  [i \in 1..FROG_COUNT |->
     [x |-> IF i = 1 \/ i = 3 THEN spot[1] ELSE IF i = 2 THEN spot[1] + 10
            ELSE 30 + 25 * i,
      y |-> IF i <= 2 THEN spot[2] ELSE IF i = 3 THEN spot[2] + 10 ELSE 440,
      collected |-> FALSE,
      id |-> i]]

\* generatePortalExit
generatePortalExit(p) == [x |-> p[1], y |-> p[2]]

NewPipe(topHeight, isSpecial, c, id) ==
  [x |-> SPAWN_X, topHeight |-> topHeight, passed |-> FALSE,
   isSpecial |-> isSpecial, gap |-> getCurrentPipeGap(c), id |-> id]

\* ------------------------------------------------------------------------
\* Normal world: pipe motion, removal, collision, entry and passage

\* variant: pipes that left the arena are kept
MovePipesNoRemoval(ps) == [i \in 1..Len(ps) |-> [ps[i] EXCEPT !.x = @ - PIPE_SPEED]]

\* lines 247-249
MovePipes(ps) ==
  LET moved == [i \in 1..Len(ps) |-> [ps[i] EXCEPT !.x = @ - PIPE_SPEED]]
      Keep(p) == p.x > -PIPE_WIDTH
  IN  SelectSeq(moved, Keep)

\* variant: a pipe is added only when none is left
NeedsSpawnWhenEmpty(ps) == Len(ps) = 0

\* variant: the threshold itself already triggers the spawn
NeedsSpawnInclusive(ps) == Len(ps) = 0 \/ ps[Len(ps)].x <= SPAWN_THRESHOLD

\* lines 252-253
NeedsSpawn(ps) == Len(ps) = 0 \/ ps[Len(ps)].x < SPAWN_THRESHOLD

\* birdRight > pipeLeft && birdLeft < pipeRight
XOverlap(bx, pipe) == bx + BIRD_SIZE > pipe.x /\ bx < pipe.x + PIPE_WIDTH

\* variant: only the upper edge of the window is tested
InPortalWindowTopOnly(by, pipe) == 10 * by >= 10 * pipe.topHeight + 3 * pipe.gap

\* birdTop >= portalTop && birdBottom <= portalBottom   (0.3 and 0.7 of the gap)
InPortalWindow(by, pipe) ==
  /\ 10 * by >= 10 * pipe.topHeight + 3 * pipe.gap
  /\ 10 * (by + BIRD_SIZE) <= 10 * pipe.topHeight + 7 * pipe.gap

\* variant: only the upper wall is tested
OutsideGapTopOnly(by, pipe) == by < pipe.topHeight

\* birdTop < pipe.topHeight || birdBottom > pipe.topHeight + pipe.gap
OutsideGap(by, pipe) ==
  by < pipe.topHeight \/ by + BIRD_SIZE > pipe.topHeight + pipe.gap

\* variant: the passed flag is not consulted
JustPassedIgnoringFlag(bx, pipe) == bx > pipe.x + PIPE_WIDTH

\* variant: portal pipes are never counted as passed
JustPassedPlainOnly(bx, pipe) ==
  ~pipe.passed /\ ~pipe.isSpecial /\ bx > pipe.x + PIPE_WIDTH

\* !pipe.passed && birdLeft > pipeRight
JustPassed(bx, pipe) == ~pipe.passed /\ bx > pipe.x + PIPE_WIDTH

\* variant: passing a pipe costs its reward
PassRewardPenalty(pipe) == IF pipe.isSpecial THEN -3 ELSE -1

PassReward(pipe) == IF pipe.isSpecial THEN 3 ELSE 1

\* variant: the registry of used portals is not consulted
CheckedIgnoringRegistry(bx, pipe, used) == XOverlap(bx, pipe)

\* variant: any used portal switches the test off for every pipe
CheckedRegistryEmpty(bx, pipe, used) == XOverlap(bx, pipe) /\ used = {}

\* the condition of line 279
Checked(bx, pipe, used) == XOverlap(bx, pipe) /\ pipe.id \notin used

\* variant: the entry does not register the pipe
MarkUsedNot(used, id) == used

\* newUsedPortalIds.add(pipe.id)
MarkUsed(used, id) == used \cup {id}

\* the condition under which the forEach callback takes the entry branch
EntersPortal(bx, by, pipe, acc) ==
  /\ Checked(bx, pipe, acc.usedPortalIds)
  /\ pipe.isSpecial
  /\ InPortalWindow(by, pipe)
  /\ ~acc.inSpecialWorld

\* variant: a portal pipe is deadly anywhere outside its window
HitsPipeOutsideWindow(bx, by, pipe, used) ==
  /\ Checked(bx, pipe, used)
  /\ IF pipe.isSpecial THEN ~InPortalWindow(by, pipe) ELSE OutsideGap(by, pipe)

\* variant: the collision test does not consult the registry
HitsPipeIgnoringRegistry(bx, by, pipe, used) ==
  /\ XOverlap(bx, pipe)
  /\ IF pipe.isSpecial
     THEN ~InPortalWindow(by, pipe) /\ OutsideGap(by, pipe)
     ELSE OutsideGap(by, pipe)

\* the condition under which the callback sets newGameOver
HitsPipe(bx, by, pipe, used) ==
  /\ Checked(bx, pipe, used)
  /\ IF pipe.isSpecial
     THEN ~InPortalWindow(by, pipe) /\ OutsideGap(by, pipe)
     ELSE OutsideGap(by, pipe)

\* One call of the forEach callback (lines 269-338).  acc holds the loop's
\* captured locals; acc.pipes collects the (possibly mutated) pipe objects.
\* The `return {...}` of the entry branch only ends this callback: its value
\* is dropped by forEach, and the passage test is skipped for that pipe.
VisitPipe(bx, by, pipe, acc, frogs) ==
  IF EntersPortal(bx, by, pipe, acc)
  THEN [acc EXCEPT !.inSpecialWorld = TRUE,
                   !.worldCoins = frogs,
                   !.coins = @ + ENTRY_BONUS,
                   !.usedPortalIds = MarkUsed(@, pipe.id),
                   !.trigger = [x |-> pipe.x, topHeight |-> pipe.topHeight,
                                gap |-> pipe.gap, id |-> pipe.id],
                   !.pipes = Append(@, pipe)]
  ELSE
    LET hit == HitsPipe(bx, by, pipe, acc.usedPortalIds)
        pass == JustPassed(bx, pipe)
    IN  [acc EXCEPT !.gameOver = @ \/ hit,
                    !.coins = IF pass THEN @ + PassReward(pipe) ELSE @,
                    !.pipes = Append(@, IF pass THEN [pipe EXCEPT !.passed = TRUE]
                                        ELSE pipe)]

RECURSIVE ForEachPipe(_, _, _, _, _, _)
ForEachPipe(bx, by, ps, i, acc, frogs) ==
  IF i > Len(ps) THEN acc
  ELSE ForEachPipe(bx, by, ps, i + 1, VisitPipe(bx, by, ps[i], acc, frogs), frogs)

\* ------------------------------------------------------------------------
\* Bonus world: frog collection

\* variant: the collected flag is not consulted
CollectsIgnoringFlag(bx, by, frog) == Within(bx, by, frog.x, frog.y, FROG_RADIUS)

Collects(bx, by, frog) ==
  ~frog.collected /\ Within(bx, by, frog.x, frog.y, FROG_RADIUS)

CollectFrogs(bx, by, frogs) ==
  [i \in 1..Len(frogs) |->
     IF Collects(bx, by, frogs[i]) THEN [frogs[i] EXCEPT !.collected = TRUE]
     ELSE frogs[i]]

CollectedNow(bx, by, frogs) ==
  Cardinality({i \in 1..Len(frogs) : Collects(bx, by, frogs[i])})

\* variant: zero is not treated as expired
TimerExpiredBelowZero(t) == t < 0

\* newPortalTimer <= 0
TimerExpired(t) == t <= 0

\* variant: the exit keeps the running countdown
ExitPortalTimerKept(t) == t

\* newPortalTimer = 10 of the exit transition (line 416)
ExitPortalTimer(t) == PortalTimerInit

\* return position of the exit transition (lines 398-412)
ReturnX(portal) ==
  IF portal = Null THEN START_X
  ELSE Clamp(MAX_X, portal.x + PIPE_WIDTH \div 2 - BIRD_SIZE \div 2)
ReturnY(portal) ==
  IF portal = Null THEN START_Y
  ELSE Clamp(MAX_Y, portal.topHeight + portal.gap \div 2 - BIRD_SIZE \div 2)


\* ------------------------------------------------------------------------
\* The complete variant (invincibility, pause, mini-games, adverse frogs) is
\* not among the sources; its state is kept in ext, which no operation of the
\* snake variant reads or writes.
ExtInit ==
  [paused |-> FALSE, invincible |-> FALSE, invincibilityTimer |-> 0,
   miniGame |-> Null, adverseReaction |-> FALSE,
   \* history: counts of entries and of mini-games resolved
   entries |-> 0, resolved |-> 0,
   \* history of the last tick: it had a violating crossing; the invincible
   \* flag, its timer, the score and the growth counter it started from; the
   \* adverse and normal frogs it collected
   crossing |-> FALSE, shielded |-> FALSE, timerBefore |-> 0,
   scoreBefore |-> 0, growthBefore |-> 0, adverseNow |-> 0, normalNow |-> 0,
   \* history: the simulation state at the last pause, until the next tick
   snapshot |-> Null]

\* ------------------------------------------------------------------------
\* Initial state (useState initialisers, lines 42-62)

Init ==
  /\ birdX = START_X
  /\ birdY = START_Y
  /\ birdDirection = [x |-> 0, y |-> 0]
  /\ bodySegments = <<>>
  /\ pipes = <<>>
  /\ coins = 0
  /\ gameStarted = FALSE
  /\ gameOver = FALSE
  /\ inSpecialWorld = FALSE
  /\ worldCoins = <<>>
  /\ colorTheme = 0
  /\ portalTimer = PortalTimerInit
  /\ portalExit = Null
  /\ enteredPortal = Null
  /\ frogsEaten = 0
  /\ isEating = FALSE
  /\ usedPortalIds = {}
  /\ pressedKeys = {}
  /\ pendingResets = 0
  /\ pendingAge = 0
  /\ nextPipeId = 1
  /\ clock = 0
  /\ keyEvents = 0
  /\ lastOp = "init"
  /\ triggerPortal = Null
  /\ lastKey = NoKey
  /\ ext = ExtInit

\* ------------------------------------------------------------------------
\* Key handlers (lines 185-206)

\* keys outside w, a, s, d: both handlers fall through
IgnoredKey(k) ==
  /\ ToLowerCase(k) \notin MoveKeys
  /\ clock \in KeyClocks \/ gameOver
  /\ lastKey' = k
  /\ lastOp' = "ignored"
  /\ UNCHANGED <<gameVars, pressedKeys, pendingResets, pendingAge, nextPipeId, clock,
                 keyEvents, triggerPortal, ext>>

\* sampled: the environment delivers a key event in this state
handleKeyDownWhen(k, sampled) ==
  LET key == ToLowerCase(k) IN
  /\ key \in MoveKeys
  /\ sampled
  /\ ~gameStarted \/ key \notin pressedKeys
  /\ gameStarted' = TRUE
  /\ pressedKeys' = pressedKeys \cup {key}
  /\ keyEvents' = keyEvents + 1
  /\ lastOp' = "keydown"
  /\ lastKey' = k
  /\ UNCHANGED <<birdX, birdY, birdDirection, bodySegments, pipes, coins, gameOver,
                 inSpecialWorld, worldCoins, colorTheme, portalTimer, portalExit,
                 enteredPortal, frogsEaten, isEating, usedPortalIds,
                 pendingResets, pendingAge, nextPipeId, clock, triggerPortal, ext>>

handleKeyUpWhen(k, sampled) ==
  LET key == ToLowerCase(k) IN
  /\ key \in MoveKeys
  /\ sampled
  /\ key \in pressedKeys
  /\ pressedKeys' = pressedKeys \ {key}
  /\ keyEvents' = keyEvents + 1
  /\ lastOp' = "keyup"
  /\ lastKey' = k
  /\ UNCHANGED <<gameVars, pendingResets, pendingAge, nextPipeId, clock, triggerPortal,
                 ext>>

\* key events are sampled at the clocks of KeyClocks and after the game's end
KeySampled == (clock \in KeyClocks \/ gameOver) /\ keyEvents < MaxKeyEvents

handleKeyDown(k) == handleKeyDownWhen(k, KeySampled)
handleKeyUp(k) == handleKeyUpWhen(k, KeySampled)

\* ------------------------------------------------------------------------
\* resetGame (lines 64-85); the button is rendered once the game has started

\* variant: the registry of used portals and the growth counter survive a reset
resetGameKeepsRegistry ==
  /\ gameStarted
  /\ birdX' = START_X
  /\ birdY' = START_Y
  /\ birdDirection' = [x |-> 0, y |-> 0]
  /\ bodySegments' = <<>>
  /\ pipes' = <<>>
  /\ coins' = 0
  /\ gameStarted' = FALSE
  /\ gameOver' = FALSE
  /\ inSpecialWorld' = FALSE
  /\ worldCoins' = <<>>
  /\ colorTheme' = 0
  /\ portalTimer' = PortalTimerInit
  /\ portalExit' = Null
  /\ enteredPortal' = Null
  /\ isEating' = FALSE
  /\ nextPipeId' = 1
  /\ clock' = 0
  /\ lastOp' = "reset"
  /\ triggerPortal' = Null
  /\ lastKey' = NoKey
  /\ UNCHANGED <<frogsEaten, usedPortalIds, pressedKeys, pendingResets, pendingAge,
                 keyEvents, ext>>

resetGame ==
  /\ gameStarted
  /\ birdX' = START_X
  /\ birdY' = START_Y
  /\ birdDirection' = [x |-> 0, y |-> 0]
  /\ bodySegments' = <<>>
  /\ pipes' = <<>>
  /\ coins' = 0
  /\ gameStarted' = FALSE
  /\ gameOver' = FALSE
  /\ inSpecialWorld' = FALSE
  /\ worldCoins' = <<>>
  /\ colorTheme' = 0
  /\ portalTimer' = PortalTimerInit
  /\ portalExit' = Null
  /\ enteredPortal' = Null
  /\ frogsEaten' = 0
  /\ isEating' = FALSE
  /\ usedPortalIds' = {}
  /\ nextPipeId' = 1
  /\ clock' = 0
  /\ lastOp' = "reset"
  /\ triggerPortal' = Null
  /\ lastKey' = NoKey
  /\ UNCHANGED <<pressedKeys, pendingResets, pendingAge, keyEvents, ext>>

\* ------------------------------------------------------------------------
\* setTimeout(() => setGameState(current => ({...current, isEating: false})), 300)

\* variant: the patch is built from the state the scheduling tick started from,
\* so it also takes back the frog that tick counted
deferredResetStale ==
  /\ pendingResets > 0
  /\ pendingResets' = pendingResets - 1
  /\ pendingAge' = 0
  /\ isEating' = FALSE
  /\ frogsEaten' = Max(0, frogsEaten - 1)
  /\ coins' = Max(0, coins - FROG_REWARD)
  /\ lastOp' = "deferred"
  /\ UNCHANGED <<birdX, birdY, birdDirection, bodySegments, pipes, gameStarted,
                 gameOver, inSpecialWorld, worldCoins, colorTheme, portalTimer,
                 portalExit, enteredPortal, usedPortalIds,
                 pressedKeys, nextPipeId, clock, keyEvents, triggerPortal, ext>>
  /\ lastKey' = NoKey

deferredReset ==
  /\ pendingResets > 0
  /\ pendingResets' = pendingResets - 1
  /\ pendingAge' = 0
  /\ isEating' = FALSE
  /\ lastOp' = "deferred"
  /\ UNCHANGED <<birdX, birdY, birdDirection, bodySegments, pipes, coins, gameStarted,
                 gameOver, inSpecialWorld, worldCoins, colorTheme, portalTimer,
                 portalExit, enteredPortal, frogsEaten, usedPortalIds,
                 pressedKeys, nextPipeId, clock, keyEvents, triggerPortal, ext>>
  /\ lastKey' = NoKey

\* ------------------------------------------------------------------------
\* The game loop (lines 217-487).  The effect installs the interval only
\* while gameStarted && !gameOver.

\* variant: the interval keeps running after game over
RunningAfterGameOver == gameStarted

\* variant: the interval runs before the first key
RunningBeforeStart == ~gameOver

\* if (!gameState.gameStarted || gameState.gameOver) return;
Running == gameStarted /\ ~gameOver

\* variant: the pipe branch runs whatever the world
NormalWorldAlways == TRUE

\* if (!newInSpecialWorld)   (line 246, newInSpecialWorld = prev.inSpecialWorld)
NormalWorld == ~inSpecialWorld

newDirectionX == DirectionX(pressedKeys)
newDirectionY == DirectionY(pressedKeys)
newBirdX == Clamp(MAX_X, birdX + newDirectionX)
newBirdY == Clamp(MAX_Y, birdY + newDirectionY)
newBodySegments == updateBodySegments(newBirdX, newBirdY, bodySegments, frogsEaten)

\* normal world (lines 246-338 and the return of lines 464-482)
ScanStart ==
  [inSpecialWorld |-> FALSE, worldCoins |-> worldCoins, coins |-> coins,
   usedPortalIds |-> usedPortalIds, gameOver |-> gameOver, trigger |-> Null,
   pipes |-> <<>>]

\* limit caps the number of pipes ever spawned
NormalTickWithin(limit) ==
  /\ Running
  /\ NormalWorld
  /\ LET moved == MovePipes(pipes)
         spawn == NeedsSpawn(moved)
     IN
     /\ spawn => nextPipeId <= limit
     /\ nextPipeId' = IF spawn THEN nextPipeId + 1 ELSE nextPipeId
     /\ \E topHeight \in IF spawn THEN TopHeights ELSE {0},
           isSpecial \in IF spawn THEN BOOLEAN ELSE {FALSE} :
          LET newPipes ==
                IF spawn
                THEN Append(moved, NewPipe(topHeight, isSpecial, coins, nextPipeId))
                ELSE moved
              enters == \E i \in 1..Len(newPipes) :
                          EntersPortal(newBirdX, newBirdY, newPipes[i], ScanStart)
          IN  \E spot \in IF enters THEN FrogSpots ELSE {<<0, 0>>} :
                LET out == ForEachPipe(newBirdX, newBirdY, newPipes, 1, ScanStart,
                                       generateWorldCoins(spot))
                IN  /\ pipes' = out.pipes
                    /\ coins' = out.coins
                    /\ gameOver' = out.gameOver
                    /\ inSpecialWorld' = out.inSpecialWorld
                    /\ worldCoins' = out.worldCoins
                    /\ usedPortalIds' = out.usedPortalIds
                    /\ triggerPortal' = IF out.inSpecialWorld THEN out.trigger
                                        ELSE triggerPortal
                    /\ lastOp' = IF out.inSpecialWorld THEN "entry" ELSE "normal"
  /\ birdX' = newBirdX
  /\ birdY' = newBirdY
  /\ bodySegments' = newBodySegments
  /\ birdDirection' = [x |-> newDirectionX, y |-> newDirectionY]
  /\ colorTheme' = getCurrentTheme(coins)
  /\ clock' = clock + 1
  /\ pendingAge' = IF pendingResets > 0 THEN pendingAge + 1 ELSE 0
  /\ pendingResets > 0 => pendingAge < MaxDelay
  /\ UNCHANGED <<gameStarted, portalTimer, portalExit, enteredPortal, frogsEaten,
                 isEating, pressedKeys, pendingResets, keyEvents, ext>>
  /\ lastKey' = NoKey

NormalTick == NormalTickWithin(MaxPipes)

\* bonus world (lines 339-462)
BonusTick ==
  /\ Running
  /\ ~NormalWorld
  /\ pendingResets > 0 => pendingAge < MaxDelay
  /\ \E p \in IF portalExit = Null THEN ExitPoints ELSE {<<0, 0>>} :
       LET newPortalExit == IF portalExit = Null THEN generatePortalExit(p)
                            ELSE portalExit
           newPortalTimer == portalTimer - FRAME_MS
           n == CollectedNow(newBirdX, newBirdY, worldCoins)
           newIsEating == n > 0
           atExit == Within(newBirdX, newBirdY, newPortalExit.x, newPortalExit.y,
                            EXIT_RADIUS)
       IN
       \/ \* timer expired (lines 352-361)
          /\ TimerExpired(newPortalTimer)
          /\ gameOver' = TRUE
          /\ portalTimer' = 0
          /\ lastOp' = "timeout"
          /\ UNCHANGED <<birdX, birdY, birdDirection, bodySegments, pipes, coins,
                         gameStarted, inSpecialWorld, worldCoins, colorTheme,
                         portalExit, enteredPortal, frogsEaten, isEating,
                         usedPortalIds, pendingResets, triggerPortal>>
          /\ pendingAge' = IF pendingResets > 0 THEN pendingAge + 1 ELSE 0
       \/ \* exit reached (lines 396-441)
          /\ ~TimerExpired(newPortalTimer)
          /\ atExit
          /\ newIsEating => pendingResets < MaxPending
          /\ pendingResets' = IF newIsEating THEN pendingResets + 1 ELSE pendingResets
          /\ pendingAge' = IF pendingResets > 0 THEN pendingAge + 1 ELSE 0
          /\ birdX' = ReturnX(enteredPortal)
          /\ birdY' = ReturnY(enteredPortal)
          /\ bodySegments' = newBodySegments
          /\ birdDirection' = [x |-> newDirectionX, y |-> newDirectionY]
          /\ coins' = coins + FROG_REWARD * n
          /\ inSpecialWorld' = FALSE
          /\ worldCoins' = <<>>
          /\ colorTheme' = getCurrentTheme(coins)
          /\ portalTimer' = ExitPortalTimer(newPortalTimer)
          /\ portalExit' = Null
          /\ enteredPortal' = Null
          /\ frogsEaten' = frogsEaten + n
          /\ isEating' = newIsEating
          /\ lastOp' = "exit"
          /\ UNCHANGED <<pipes, gameStarted, gameOver, usedPortalIds, triggerPortal>>
       \/ \* still inside (lines 444-461)
          /\ ~TimerExpired(newPortalTimer)
          /\ ~atExit
          /\ newIsEating => pendingResets < MaxPending
          /\ pendingResets' = IF newIsEating THEN pendingResets + 1 ELSE pendingResets
          /\ pendingAge' = IF pendingResets > 0 THEN pendingAge + 1 ELSE 0
          /\ birdX' = newBirdX
          /\ birdY' = newBirdY
          /\ bodySegments' = newBodySegments
          /\ birdDirection' = [x |-> newDirectionX, y |-> newDirectionY]
          /\ coins' = coins + FROG_REWARD * n
          /\ worldCoins' = CollectFrogs(newBirdX, newBirdY, worldCoins)
          /\ colorTheme' = getCurrentTheme(coins)
          /\ portalTimer' = newPortalTimer
          /\ portalExit' = newPortalExit
          /\ frogsEaten' = frogsEaten + n
          /\ isEating' = newIsEating
          /\ lastOp' = "bonus"
          /\ UNCHANGED <<pipes, gameStarted, gameOver, inSpecialWorld, enteredPortal,
                         usedPortalIds, triggerPortal>>
  /\ clock' = clock + 1
  /\ lastKey' = NoKey
  /\ UNCHANGED <<pressedKeys, nextPipeId, keyEvents, ext>>

gameLoop == NormalTick \/ BonusTick

Next ==
  \/ \E k \in KeyInputs : handleKeyDown(k)
  \/ \E k \in KeyInputs : handleKeyUp(k)
  \/ \E k \in KeyInputs : IgnoredKey(k)
  \/ resetGame
  \/ deferredReset
  \/ gameLoop

Spec == Init /\ [][Next]_vars

\* ------------------------------------------------------------------------
\* Long runs of the pipe conveyor: the same handlers with a larger budget of
\* pipes, so that pipes reach the left edge, and with the movement keys a, w
\* and d only (no key release, no reset).
MaxScrollPipes == 3
ScrollKeys == {"a", "w", "d"}

ScrollNext ==
  \/ \E k \in ScrollKeys : handleKeyDown(k)
  \/ deferredReset
  \/ NormalTickWithin(MaxScrollPipes)
  \/ BonusTick

ScrollSpec == Init /\ [][ScrollNext]_vars

\* ------------------------------------------------------------------------
\* One long game with a fixed sequence of key events: the game is started by
\* a tap on w, the player waits for two portals, then moves up for 3 ticks
\* and right for 30 ticks and waits again.  Pipes, frogs and exit points are
\* drawn as in every game; a tick runs when no key event is due.
MaxReturnPipes == 4
ReturnScript ==
  << [clock |-> 0, key |-> "w", down |-> TRUE],
     [clock |-> 0, key |-> "w", down |-> FALSE],
     [clock |-> 190, key |-> "d", down |-> TRUE],
     [clock |-> 190, key |-> "w", down |-> TRUE],
     [clock |-> 193, key |-> "w", down |-> FALSE],
     [clock |-> 220, key |-> "d", down |-> FALSE] >>

KeyDue == keyEvents < Len(ReturnScript) /\ ReturnScript[keyEvents + 1].clock = clock

scriptedKey ==
  /\ KeyDue
  /\ LET e == ReturnScript[keyEvents + 1] IN
     IF e.down THEN handleKeyDownWhen(e.key, TRUE) ELSE handleKeyUpWhen(e.key, TRUE)

ReturnNext ==
  \/ scriptedKey
  \/ deferredReset
  \/ ~KeyDue /\ NormalTickWithin(MaxReturnPipes)
  \/ ~KeyDue /\ BonusTick

ReturnSpec == Init /\ [][ReturnNext]_vars

\* ------------------------------------------------------------------------
\* The gap function on its own: the score is drawn from 0..MaxScore, grows
\* by the increments the loop applies (1 and 3 passage, 2 frog, 5 entry), and
\* pipes are spawned with getCurrentPipeGap(prev.coins) as in lines 252-266.

ScoreGains == {1, FROG_REWARD, 3, ENTRY_BONUS}

GapInit ==
  /\ coins \in 0..MaxScore
  /\ birdX = START_X
  /\ birdY = START_Y
  /\ birdDirection = [x |-> 0, y |-> 0]
  /\ bodySegments = <<>>
  /\ pipes = <<>>
  /\ gameStarted = TRUE
  /\ gameOver = FALSE
  /\ inSpecialWorld = FALSE
  /\ worldCoins = <<>>
  /\ colorTheme = 0
  /\ portalTimer = PortalTimerInit
  /\ portalExit = Null
  /\ enteredPortal = Null
  /\ frogsEaten = 0
  /\ isEating = FALSE
  /\ usedPortalIds = {}
  /\ pressedKeys = {}
  /\ pendingResets = 0
  /\ pendingAge = 0
  /\ nextPipeId = 1
  /\ clock = 0
  /\ keyEvents = 0
  /\ lastOp = "init"
  /\ triggerPortal = Null
  /\ lastKey = NoKey
  /\ ext = ExtInit

\* the spawn of lines 252-266, with the gap of the score at that moment
GapSpawn ==
  /\ nextPipeId <= MaxPipes
  /\ pipes' = Append(pipes, NewPipe(150, FALSE, coins, nextPipeId))
  /\ nextPipeId' = nextPipeId + 1
  /\ lastOp' = "spawn"
  /\ UNCHANGED <<birdX, birdY, birdDirection, bodySegments, coins, gameStarted,
                 gameOver, inSpecialWorld, worldCoins, colorTheme, portalTimer,
                 portalExit, enteredPortal, frogsEaten, isEating, usedPortalIds,
                 pressedKeys, pendingResets, pendingAge, clock, keyEvents,
                 triggerPortal, lastKey, ext>>

\* the score grows between spawns
GapScore ==
  /\ \E d \in ScoreGains :
       /\ coins + d <= MaxScore
       /\ coins' = coins + d
  /\ lastOp' = "score"
  /\ UNCHANGED <<birdX, birdY, birdDirection, bodySegments, pipes, gameStarted,
                 gameOver, inSpecialWorld, worldCoins, colorTheme, portalTimer,
                 portalExit, enteredPortal, frogsEaten, isEating, usedPortalIds,
                 pressedKeys, pendingResets, pendingAge, nextPipeId, clock,
                 keyEvents, triggerPortal, lastKey, ext>>

GapNext == GapSpawn \/ GapScore

GapSpec == GapInit /\ [][GapNext]_vars

\* ------------------------------------------------------------------------
\* The complete variant (invincibility, adverse frogs, mini-games, pause).
\* Its source is not in the repository; the operations below follow sections
\* 4.1-4.5, 5 and 6 of the specification, on top of the state and the
\* geometry of the snake variant.

ADVERSE_PENALTY == 10      \* "adverse collection at score 5 yields max(0, 5 - 10)"
InvincibleMs == 1600       \* duration of one grant (the text fixes none)

\* instants at which pause toggles and grants are sampled
PauseClocks == {0, 40, 700}
GrantClocks == {0, 640}

\* 4.3: the fixed hand of the card game
CardHand == <<2, 4, 6, 8, 10>>

\* the random source of a mini-game: the kind and up to two draws
DiceDraws == {[kind |-> "dice", r1 |-> a, r2 |-> b] : a \in 1..6, b \in 1..6}
CardDraws ==
  {[kind |-> "cards", r1 |-> a, r2 |-> b] : a \in 1..5, b \in 1..5} \
  {[kind |-> "cards", r1 |-> a, r2 |-> a] : a \in 1..5}
SpinnerDraws == {[kind |-> "spinner", r1 |-> a, r2 |-> 0] : a \in 1..10}
TreasureDraws == {[kind |-> "treasure", r1 |-> a, r2 |-> 0] : a \in 5..20}
AllMiniDraws == DiceDraws \cup CardDraws \cup SpinnerDraws \cup TreasureDraws

\* the draws used where the bonus world is explored at length
MiniDraws == {[kind |-> "spinner", r1 |-> 1, r2 |-> 0],
              [kind |-> "treasure", r1 |-> 20, r2 |-> 0]}
NoDraw == [kind |-> "none", r1 |-> 0, r2 |-> 0]

\* variant: the dice are multiplied
MiniBonusProduct(d) ==
  IF d.kind = "dice" THEN d.r1 * d.r2
  ELSE IF d.kind = "cards" THEN CardHand[d.r1] + CardHand[d.r2]
  ELSE d.r1

\* 4.3: dice - sum of two faces; cards - sum of the first two cards of the
\* shuffled hand; spinner and treasure - the value drawn
MiniBonus(d) ==
  IF d.kind = "dice" THEN d.r1 + d.r2
  ELSE IF d.kind = "cards" THEN CardHand[d.r1] + CardHand[d.r2]
  ELSE d.r1

\* 4.3: (kind, payload, bonus)
resolveMiniGame(d) ==
  [kind |-> d.kind,
   payload |-> IF d.kind = "dice" THEN <<d.r1, d.r2>>
               ELSE IF d.kind = "cards" THEN <<CardHand[d.r1], CardHand[d.r2]>>
               ELSE <<d.r1>>,
   bonus |-> MiniBonus(d)]

\* 4.2: the batch of an entry; the frog at 130 px from the spot is adverse
generateFrogBatch(spot) ==
  [i \in 1..FROG_COUNT |->
     [x |-> IF i = 1 \/ i = 3 THEN spot[1] ELSE IF i = 2 THEN spot[1] + 10
            ELSE IF i = 4 THEN spot[1] + 130 ELSE 30 + 25 * i,
      y |-> IF i <= 2 \/ i = 4 THEN spot[2] ELSE IF i = 3 THEN spot[2] + 10 ELSE 440,
      collected |-> FALSE,
      isAdverse |-> (i = 4),
      id |-> i]]

\* variant: the penalty is not floored
applyAdverseUnclamped(score) == score - ADVERSE_PENALTY

\* 4.2: adverse - the score decreases, clamped at zero
applyAdverse(score) == Max(0, score - ADVERSE_PENALTY)

\* 4.2: the collection test applied to the frogs in list order
RECURSIVE collectBatch(_, _, _, _, _)
collectBatch(bx, by, frogs, i, acc) ==
  IF i > Len(frogs) THEN acc
  ELSE
    LET frog == frogs[i] IN
    IF ~Collects(bx, by, frog)
    THEN collectBatch(bx, by, frogs, i + 1, [acc EXCEPT !.frogs = Append(@, frog)])
    ELSE IF frog.isAdverse
    THEN collectBatch(bx, by, frogs, i + 1,
           [acc EXCEPT !.frogs = Append(@, [frog EXCEPT !.collected = TRUE]),
                       !.coins = applyAdverse(@),
                       !.adverse = @ + 1])
    ELSE collectBatch(bx, by, frogs, i + 1,
           [acc EXCEPT !.frogs = Append(@, [frog EXCEPT !.collected = TRUE]),
                       !.coins = @ + FROG_REWARD,
                       !.growth = @ + 1,
                       !.normal = @ + 1])

\* variant: invincibility is not consulted by the collision test
ShieldedNever(e) == FALSE

\* 4.1: "and the player is not currently invincible"
Shielded(e) == e.invincible

\* variant: the scheduler ignores the pause flag
UnpausedAlways == TRUE

\* 5: pausing suspends scheduling entirely
Unpaused == ~ext.paused

\* 4.1: the collision test of one obstacle
scanObstacle(bx, by, pipe, acc) ==
  IF /\ Checked(bx, pipe, acc.usedPortalIds)
     /\ pipe.isSpecial
     /\ InPortalWindow(by, pipe)
     /\ ~acc.inSpecialWorld
  THEN [acc EXCEPT !.inSpecialWorld = TRUE,
                   !.usedPortalIds = MarkUsed(@, pipe.id),
                   !.trigger = [x |-> pipe.x, topHeight |-> pipe.topHeight,
                                gap |-> pipe.gap, id |-> pipe.id],
                   !.pipes = Append(@, pipe)]
  ELSE
    LET cross == Checked(bx, pipe, acc.usedPortalIds) /\ OutsideGap(by, pipe)
        pass == JustPassed(bx, pipe)
    IN  [acc EXCEPT !.crossing = @ \/ cross,
                    !.gameOver = @ \/ (cross /\ ~Shielded(ext)),
                    !.coins = IF pass THEN @ + PassReward(pipe) ELSE @,
                    !.pipes = Append(@, IF pass THEN [pipe EXCEPT !.passed = TRUE]
                                        ELSE pipe)]

RECURSIVE scanObstacles(_, _, _, _, _)
scanObstacles(bx, by, ps, i, acc) ==
  IF i > Len(ps) THEN acc
  ELSE scanObstacles(bx, by, ps, i + 1, scanObstacle(bx, by, ps[i], acc))

\* 4.5: while active, decremented by the elapsed time of the tick
countDown(e) ==
  LET t == IF e.invincible THEN Max(0, e.invincibilityTimer - FRAME_MS)
           ELSE e.invincibilityTimer
  IN  [e EXCEPT !.invincibilityTimer = t, !.invincible = e.invincible /\ t > 0]

\* what every tick records of the state it started from
tickHistory(e) ==
  [e EXCEPT !.shielded = ext.invincible,
            !.timerBefore = ext.invincibilityTimer,
            !.scoreBefore = coins,
            !.growthBefore = frogsEaten,
            !.crossing = FALSE,
            !.adverseNow = 0,
            !.normalNow = 0,
            !.snapshot = Null]

\* 4.1 and the entry transition of 4.2
stepPrimary(Draws) ==
  /\ Running
  /\ NormalWorld
  /\ Unpaused
  /\ LET moved == MovePipes(pipes)
         spawn == NeedsSpawn(moved)
     IN
     /\ spawn => nextPipeId <= MaxPipes
     /\ nextPipeId' = IF spawn THEN nextPipeId + 1 ELSE nextPipeId
     /\ \E topHeight \in IF spawn THEN TopHeights ELSE {0},
           isSpecial \in IF spawn THEN BOOLEAN ELSE {FALSE} :
          LET newPipes ==
                IF spawn
                THEN Append(moved, NewPipe(topHeight, isSpecial, coins, nextPipeId))
                ELSE moved
              out == scanObstacles(newBirdX, newBirdY, newPipes, 1,
                       [inSpecialWorld |-> FALSE, coins |-> coins,
                        usedPortalIds |-> usedPortalIds, gameOver |-> gameOver,
                        crossing |-> FALSE, trigger |-> Null, pipes |-> <<>>])
              enters == out.inSpecialWorld
          IN  \E spot \in IF enters THEN FrogSpots ELSE {<<0, 0>>},
                 p \in IF enters THEN ExitPoints ELSE {<<0, 0>>},
                 d \in IF enters THEN Draws ELSE {NoDraw} :
                /\ pipes' = out.pipes
                /\ gameOver' = out.gameOver
                /\ inSpecialWorld' = enters
                /\ usedPortalIds' = out.usedPortalIds
                /\ coins' = IF enters THEN out.coins + ENTRY_BONUS + MiniBonus(d)
                            ELSE out.coins
                /\ worldCoins' = IF enters THEN generateFrogBatch(spot) ELSE worldCoins
                /\ portalExit' = IF enters THEN generatePortalExit(p) ELSE portalExit
                /\ enteredPortal' = IF enters THEN out.trigger ELSE enteredPortal
                /\ portalTimer' = IF enters THEN PortalTimerInit ELSE portalTimer
                /\ triggerPortal' = IF enters THEN out.trigger ELSE triggerPortal
                /\ lastOp' = IF enters THEN "entry" ELSE "normal"
                /\ ext' = IF enters
                          THEN [tickHistory(ext) EXCEPT
                                  !.invincible = FALSE,
                                  !.invincibilityTimer = 0,
                                  !.miniGame = resolveMiniGame(d),
                                  !.entries = @ + 1,
                                  !.resolved = @ + 1,
                                  !.crossing = out.crossing]
                          ELSE [tickHistory(countDown(ext)) EXCEPT
                                  !.crossing = out.crossing]
  /\ birdX' = newBirdX
  /\ birdY' = newBirdY
  /\ bodySegments' = newBodySegments
  /\ birdDirection' = [x |-> newDirectionX, y |-> newDirectionY]
  /\ colorTheme' = getCurrentTheme(coins)
  /\ clock' = clock + 1
  /\ lastKey' = NoKey
  /\ UNCHANGED <<gameStarted, frogsEaten, isEating, pressedKeys, pendingResets,
                 pendingAge, keyEvents>>

\* 4.2 while Active, and the exit transition
stepBonus ==
  /\ Running
  /\ ~NormalWorld
  /\ Unpaused
  /\ LET newPortalTimer == portalTimer - FRAME_MS
         got == collectBatch(newBirdX, newBirdY, worldCoins, 1,
                  [frogs |-> <<>>, coins |-> coins, growth |-> frogsEaten,
                   adverse |-> 0, normal |-> 0])
         atExit == Within(newBirdX, newBirdY, portalExit.x, portalExit.y, EXIT_RADIUS)
         e == [tickHistory(countDown(ext)) EXCEPT
                 !.adverseNow = got.adverse,
                 !.normalNow = got.normal,
                 !.adverseReaction = got.adverse > 0]
     IN
     \/ \* the countdown reaches zero
        /\ TimerExpired(newPortalTimer)
        /\ gameOver' = TRUE
        /\ portalTimer' = 0
        /\ lastOp' = "timeout"
        /\ ext' = tickHistory(ext)
        /\ UNCHANGED <<birdX, birdY, birdDirection, bodySegments, coins,
                       inSpecialWorld, worldCoins, colorTheme, portalExit,
                       enteredPortal, frogsEaten, isEating>>
     \/ \* the exit point is reached
        /\ ~TimerExpired(newPortalTimer)
        /\ atExit
        /\ birdX' = ReturnX(enteredPortal)
        /\ birdY' = ReturnY(enteredPortal)
        /\ bodySegments' = newBodySegments
        /\ birdDirection' = [x |-> newDirectionX, y |-> newDirectionY]
        /\ coins' = got.coins
        /\ frogsEaten' = got.growth
        /\ isEating' = (got.normal > 0)
        /\ inSpecialWorld' = FALSE
        /\ worldCoins' = <<>>
        /\ colorTheme' = getCurrentTheme(coins)
        /\ portalTimer' = PortalTimerInit
        /\ portalExit' = Null
        /\ enteredPortal' = Null
        /\ lastOp' = "exit"
        /\ ext' = e
        /\ UNCHANGED gameOver
     \/ \* still inside
        /\ ~TimerExpired(newPortalTimer)
        /\ ~atExit
        /\ birdX' = newBirdX
        /\ birdY' = newBirdY
        /\ bodySegments' = newBodySegments
        /\ birdDirection' = [x |-> newDirectionX, y |-> newDirectionY]
        /\ coins' = got.coins
        /\ frogsEaten' = got.growth
        /\ isEating' = (got.normal > 0)
        /\ worldCoins' = got.frogs
        /\ colorTheme' = getCurrentTheme(coins)
        /\ portalTimer' = newPortalTimer
        /\ lastOp' = "bonus"
        /\ ext' = e
        /\ UNCHANGED <<gameOver, inSpecialWorld, portalExit, enteredPortal>>
  /\ clock' = clock + 1
  /\ lastKey' = NoKey
  /\ UNCHANGED <<pipes, gameStarted, usedPortalIds, pressedKeys, pendingResets,
                 pendingAge, nextPipeId, keyEvents, triggerPortal>>

\* the simulation state as a value
Held == [state |-> <<gameVars, clock>>]

\* 6: the pause toggle
togglePause ==
  /\ Running
  /\ clock \in PauseClocks
  /\ ext' = [ext EXCEPT !.paused = ~@,
                        !.snapshot = IF ext.paused THEN @ ELSE Held]
  /\ lastOp' = "pause"
  /\ lastKey' = NoKey
  /\ UNCHANGED <<gameVars, pressedKeys, pendingResets, pendingAge, nextPipeId, clock,
                 keyEvents, triggerPortal>>

\* 4.5: the flag is set with its full duration (the trigger is not described)
grantInvincibility ==
  /\ Running
  /\ clock \in GrantClocks
  /\ ~ext.invincible
  /\ ext' = [ext EXCEPT !.invincible = TRUE, !.invincibilityTimer = InvincibleMs]
  /\ lastOp' = "grant"
  /\ lastKey' = NoKey
  /\ UNCHANGED <<gameVars, pressedKeys, pendingResets, pendingAge, nextPipeId, clock,
                 keyEvents, triggerPortal>>

\* 4.3: dismissal hides the overlay and nothing else
dismissMiniGame ==
  /\ ext.miniGame # Null
  /\ ext' = [ext EXCEPT !.miniGame = Null]
  /\ lastOp' = "dismiss"
  /\ lastKey' = NoKey
  /\ UNCHANGED <<gameVars, pressedKeys, pendingResets, pendingAge, nextPipeId, clock,
                 keyEvents, triggerPortal>>

\* the movement keys are pressed and released before the first tick
holdKey(k) == clock = 0 /\ pressedKeys = {} /\ handleKeyDown(k)
releaseKey(k) == clock = 0 /\ handleKeyUp(k)

FullNext ==
  \/ \E k \in KeyInputs : holdKey(k)
  \/ \E k \in KeyInputs : releaseKey(k)
  \/ togglePause
  \/ grantInvincibility
  \/ stepPrimary(MiniDraws)
  \/ stepBonus

FullSpec == Init /\ [][FullNext]_vars

\* Mini-game resolution over its whole random source: a game in which the
\* resting player is about to enter the first portal (the state after tick
\* 84), followed up to the dismissal of the overlay
MiniInit ==
  /\ birdX = START_X
  /\ birdY = START_Y
  /\ birdDirection = [x |-> 0, y |-> 0]
  /\ bodySegments = <<>>
  /\ pipes = <<[NewPipe(150, TRUE, 0, 1) EXCEPT !.x = 234]>>
  /\ coins = 0
  /\ gameStarted = TRUE
  /\ gameOver = FALSE
  /\ inSpecialWorld = FALSE
  /\ worldCoins = <<>>
  /\ colorTheme = 0
  /\ portalTimer = PortalTimerInit
  /\ portalExit = Null
  /\ enteredPortal = Null
  /\ frogsEaten = 0
  /\ isEating = FALSE
  /\ usedPortalIds = {}
  /\ pressedKeys = {}
  /\ pendingResets = 0
  /\ pendingAge = 0
  /\ nextPipeId = 2
  /\ clock = 84
  /\ keyEvents = 2
  /\ lastOp = "normal"
  /\ triggerPortal = Null
  /\ lastKey = NoKey
  /\ ext = ExtInit

MiniNext ==
  \/ stepPrimary(AllMiniDraws)
  \/ dismissMiniGame

MiniSpec == MiniInit /\ [][MiniNext]_vars


\* ========================================================================
\* Properties

\* a step of the game loop
TickStep == clock' = clock + 1
NormalTickStep == TickStep /\ ~inSpecialWorld
BonusTickStep == TickStep /\ inSpecialWorld
EntryStep == TickStep /\ ~inSpecialWorld /\ inSpecialWorld'
ResetStep == lastOp' = "reset" /\ gameStarted /\ ~gameStarted'

PipeById(ps, id) == CHOOSE i \in 1..Len(ps) : ps[i].id = id
HasPipe(ps, id) == \E i \in 1..Len(ps) : ps[i].id = id

\* C1: in every reachable state the head lies in the arena,
\* 0 <= birdX <= 370 and 0 <= birdY <= 470, each axis on its own.
C1_PositionInArena ==
  /\ 0 <= birdX /\ birdX <= 370
  /\ 0 <= birdY /\ birdY <= 470

\* C1 witness: a tick that pushed against the right and the top wall at once
C1_Witness ==
  /\ lastOp = "normal"
  /\ birdX = 370 /\ birdY = 0
  /\ birdDirection = [x |-> 4, y |-> -4]

\* was the pipe with this id marked passed before the step (a pipe spawned in
\* the step starts unmarked)
PassedBefore(id) == HasPipe(pipes, id) /\ pipes[PipeById(pipes, id)].passed

RECURSIVE NewRewards(_, _)
NewRewards(ps, i) ==
  IF i > Len(ps) THEN 0
  ELSE (IF ps[i].passed /\ ~PassedBefore(ps[i].id)
        THEN (IF ps[i].isSpecial THEN 3 ELSE 1) ELSE 0) + NewRewards(ps, i + 1)

\* C2: every pipe awards its passage reward (+1 plain, +3 portal) exactly
\* once: a normal-world tick marks exactly the unmarked pipes with
\* birdX > pipe.x + 60 and adds their rewards (and nothing else but the entry
\* bonus) to the score; a marked pipe stays marked while it is in the list.
C2_PassageRewardOnce ==
  [][ /\ NormalTickStep =>
           /\ \A i \in 1..Len(pipes') :
                pipes'[i].passed <=>
                  (PassedBefore(pipes'[i].id) \/ birdX' > pipes'[i].x + 60)
           /\ coins' = coins + NewRewards(pipes', 1)
                             + (IF inSpecialWorld' THEN 5 ELSE 0)
      /\ ~ResetStep =>
           \A i \in 1..Len(pipes) :
             (pipes[i].passed /\ HasPipe(pipes', pipes[i].id))
               => pipes'[PipeById(pipes', pipes[i].id)].passed
    ]_vars

\* C2 witness: a plain and a portal pipe have both been passed, for 1 + 3
C2_Witness ==
  /\ Len(pipes) = 2
  /\ pipes[1].passed /\ pipes[2].passed
  /\ pipes[1].isSpecial # pipes[2].isSpecial
  /\ coins = 4
  /\ lastOp = "normal"

\* C3: an id put into usedPortalIds stays there after every tick and deferred
\* reset, and no tick enters the bonus world through a pipe whose id is
\* already in the registry.
C3_UsedPortalStaysUsed ==
  [][ /\ ~ResetStep => usedPortalIds \subseteq usedPortalIds'
      /\ EntryStep =>
           /\ triggerPortal'.id \notin usedPortalIds
           /\ usedPortalIds' = usedPortalIds \cup {triggerPortal'.id}
    ]_vars

\* C3 witness: back in the normal world the player lies fully inside the
\* window of a portal pipe that is already used, and no entry took place
C3_Witness ==
  /\ lastOp = "normal"
  /\ ~inSpecialWorld /\ ~gameOver
  /\ \E i \in 1..Len(pipes) :
       /\ pipes[i].id \in usedPortalIds
       /\ pipes[i].isSpecial
       /\ birdX + 30 > pipes[i].x /\ birdX < pipes[i].x + 60
       /\ 10 * birdY >= 10 * pipes[i].topHeight + 3 * pipes[i].gap
       /\ 10 * (birdY + 30) <= 10 * pipes[i].topHeight + 7 * pipes[i].gap


\* C4: the exit tick puts the player at the centre of the gap of the pipe
\* through which the session was entered, clamped to the arena:
\* birdX = clamp(portal.x + 60/2 - 30/2, 0, 370) and
\* birdY = clamp(portal.topHeight + portal.gap/2 - 30/2, 0, 470).
C4_ExitAtPortalCentre ==
  lastOp = "exit" =>
    LET cx == triggerPortal.x + 30 - 15
        cy == triggerPortal.topHeight + triggerPortal.gap \div 2 - 15
    IN  /\ birdX = (IF cx < 0 THEN 0 ELSE IF cx > 370 THEN 370 ELSE cx)
        /\ birdY = (IF cy < 0 THEN 0 ELSE IF cy > 470 THEN 470 ELSE cy)

\* C5: while the session is active, enteredPortal is non-null and holds the
\* x, topHeight, gap and id of the pipe whose window triggered the entry.
C5_EnteredPortalKept ==
  inSpecialWorld => (enteredPortal # Null /\ enteredPortal = triggerPortal)

\* C6: the exit point is null exactly when the session is inactive.
C6_ExitNullIffInactive ==
  (portalExit = Null) <=> ~inSpecialWorld

\* squared length of the link between two positions
Link2(a, b) == (a.x - b.x) * (a.x - b.x) + (a.y - b.y) * (a.y - b.y)

\* C7: in every state produced by a tick the head is within 25 of
\* bodySegments[0] and every segment is within 25 of the next one.
C7_ChainWithinFollowDistance ==
  lastOp \in {"normal", "entry", "bonus", "exit"} =>
    /\ Len(bodySegments) > 0 =>
         Link2([x |-> birdX, y |-> birdY], bodySegments[1]) <= 25 * 25
    /\ \A i \in 1..(Len(bodySegments) - 1) :
         Link2(bodySegments[i], bodySegments[i + 1]) <= 25 * 25

\* C8: a normal-world tick sets gameOver exactly when some pipe whose id is
\* not in usedPortalIds overlaps the player horizontally while the player's
\* vertical extent leaves its gap.
C8_CollisionIffGameOver ==
  lastOp \in {"normal", "entry"} =>
    (gameOver <=>
       \E i \in 1..Len(pipes) :
         /\ pipes[i].id \notin usedPortalIds
         /\ birdX + 30 > pipes[i].x /\ birdX < pipes[i].x + 60
         /\ (birdY < pipes[i].topHeight
             \/ birdY + 30 > pipes[i].topHeight + pipes[i].gap))

\* C8 witness: a portal pipe hit below its gap ended the game
C8_Witness ==
  /\ lastOp = "normal"
  /\ gameOver
  /\ \E i \in 1..Len(pipes) :
       /\ pipes[i].isSpecial
       /\ birdX + 30 > pipes[i].x /\ birdX < pipes[i].x + 60
       /\ birdY + 30 > pipes[i].topHeight + pipes[i].gap

\* C9: game over is terminal until reset: while gameOver holds, every step
\* but resetGame leaves position, direction, segments, pipes, score, session
\* state and gameOver unchanged and runs no tick; only resetGame clears it.
C9_GameOverTerminal ==
  [][ /\ (gameOver /\ ~ResetStep) =>
           UNCHANGED <<birdX, birdY, birdDirection, bodySegments, pipes, coins,
                       gameStarted, gameOver, inSpecialWorld, worldCoins,
                       colorTheme, portalTimer, portalExit, enteredPortal,
                       frogsEaten, usedPortalIds, clock>>
      /\ (gameOver /\ ~gameOver') => ResetStep
    ]_vars

\* C9 witness: a movement key went down while the game was over
C9_Witness ==
  /\ gameOver
  /\ lastOp = "keydown"

\* C10: the countdown is never negative; a bonus-world tick that neither
\* exits nor times out lowers it by 16 ms; the tick whose decremented value
\* is zero or below sets gameOver and stores 0, whatever the position.
C10_Countdown ==
  /\ [](portalTimer >= 0)
  /\ [][ BonusTickStep =>
           IF portalTimer - 16 <= 0
           THEN gameOver' /\ portalTimer' = 0 /\ inSpecialWorld'
           ELSE /\ ~gameOver'
                /\ inSpecialWorld' => portalTimer' = portalTimer - 16
       ]_vars

\* C10 witness: the timer ran out in a tick whose new position was inside
\* the exit radius
C10_Witness ==
  /\ lastOp = "timeout"
  /\ gameOver /\ portalTimer = 0
  /\ portalExit # Null
  /\ LET nx == Clamp(MAX_X, birdX + DirectionX(pressedKeys))
         ny == Clamp(MAX_Y, birdY + DirectionY(pressedKeys))
     IN  (nx - portalExit.x) * (nx - portalExit.x)
           + (ny - portalExit.y) * (ny - portalExit.y) < 30 * 30

\* C11: the session goes from inactive to active only in a normal-world tick
\* in which a portal pipe whose id is not in usedPortalIds overlaps the
\* player horizontally while the player's vertical extent lies fully inside
\* the pipe's portal window (0.3 to 0.7 of the gap); no key event, deferred
\* patch, reset or other tick activates it.
C11_EntryOnlyThroughWindow ==
  [][ (~inSpecialWorld /\ inSpecialWorld') =>
        /\ TickStep
        /\ \E i \in 1..Len(pipes') :
             /\ pipes'[i].isSpecial
             /\ pipes'[i].id \notin usedPortalIds
             /\ birdX' + 30 > pipes'[i].x /\ birdX' < pipes'[i].x + 60
             /\ 10 * birdY' >= 10 * pipes'[i].topHeight + 3 * pipes'[i].gap
             /\ 10 * (birdY' + 30) <= 10 * pipes'[i].topHeight + 7 * pipes'[i].gap
    ]_vars

\* C11 witness: the first session was entered through the window of pipe 1,
\* whose gap starts at 150 (window 225..325, player at 250..280)
C11_Witness ==
  /\ lastOp = "entry"
  /\ inSpecialWorld
  /\ usedPortalIds = {1}
  /\ triggerPortal.id = 1 /\ triggerPortal.topHeight = 150
  /\ birdY = 250

\* C12: in the state produced by every entry tick, of the first session and
\* of every later one: inSpecialWorld is true, the id of the triggering pipe
\* is in usedPortalIds, the score has grown by the entry bonus 5 (and by the
\* passage rewards of other pipes in that tick), worldCoins holds exactly 12
\* frogs, none collected, and portalTimer is the full 10 seconds.
C12_EntryEffects ==
  [][ EntryStep =>
        /\ inSpecialWorld'
        /\ \E i \in 1..Len(pipes') :
             /\ pipes'[i].isSpecial
             /\ birdX' + 30 > pipes'[i].x /\ birdX' < pipes'[i].x + 60
             /\ pipes'[i].id \notin usedPortalIds
             /\ pipes'[i].id \in usedPortalIds'
        /\ coins' = coins + 5 + NewRewards(pipes', 1)
        /\ Len(worldCoins') = 12
        /\ \A i \in 1..Len(worldCoins') : ~worldCoins'[i].collected
        /\ portalTimer' = 10 * 1000
    ]_vars

\* C12 witness: the entry tick of a second session, after a first session in
\* which three frogs were eaten and the countdown had run down
C12_Witness ==
  /\ lastOp = "entry"
  /\ usedPortalIds = {1, 2}
  /\ frogsEaten = 3
  /\ portalTimer = 10 * 1000
  /\ Len(worldCoins) = 12

\* C13: in the state produced by every exit tick inSpecialWorld is false,
\* worldCoins is empty, portalTimer is back at 10 seconds, portalExit and
\* enteredPortal are null, and usedPortalIds still holds the id of the pipe
\* through which the session was entered.
C13_ExitEffects ==
  lastOp = "exit" =>
    /\ ~inSpecialWorld
    /\ worldCoins = <<>>
    /\ portalTimer = 10 * 1000
    /\ portalExit = Null
    /\ enteredPortal = Null
    /\ triggerPortal # Null /\ triggerPortal.id \in usedPortalIds

\* C13 witness: the exit tick of the second session, entered through pipe 2
C13_Witness ==
  /\ lastOp = "exit"
  /\ triggerPortal # Null /\ triggerPortal.id = 2
  /\ usedPortalIds = {1, 2}
  /\ ~inSpecialWorld /\ ~gameOver

\* C14: two portal pipes with distinct ids are usable independently: once
\* some portal P has been used, every other pipe Q whose id is not in
\* usedPortalIds keeps its entry test (overlap inside the window activates
\* the session) and its collision test (overlap outside the gap ends the
\* game); the witness is an entry through Q after P was entered and left.
C14_PortalsIndependent ==
  [][ (NormalTickStep /\ usedPortalIds # {}) =>
        \A i \in 1..Len(pipes') :
          ( /\ pipes'[i].id \notin usedPortalIds
            /\ birdX' + 30 > pipes'[i].x /\ birdX' < pipes'[i].x + 60 ) =>
            /\ ( /\ pipes'[i].isSpecial
                 /\ 10 * birdY' >= 10 * pipes'[i].topHeight + 3 * pipes'[i].gap
                 /\ 10 * (birdY' + 30) <= 10 * pipes'[i].topHeight + 7 * pipes'[i].gap )
                 => inSpecialWorld'
            /\ ( birdY' < pipes'[i].topHeight
                 \/ birdY' + 30 > pipes'[i].topHeight + pipes'[i].gap )
                 => gameOver'
    ]_vars

\* C14 witness: portal 1 was entered and left, it is still in the list, and
\* the player has now entered through portal 2
C14_Witness ==
  /\ lastOp = "entry"
  /\ inSpecialWorld
  /\ triggerPortal.id = 2
  /\ 1 \in usedPortalIds
  /\ \E i \in 1..Len(pipes) : pipes[i].id = 1 /\ pipes[i].isSpecial

\* C15: while the session is active every tick (bonus-world tick, exit tick,
\* timeout tick) leaves the pipe list unchanged: no pipe moves, is spawned,
\* removed or marked passed; the score grows by the frog rewards only (no
\* passage reward), and the game ends only by the countdown (no pipe
\* collision is evaluated).
C15_PipesFrozenInBonusWorld ==
  [][ BonusTickStep =>
        /\ pipes' = pipes
        /\ coins' = coins + 2 * (frogsEaten' - frogsEaten)
        /\ gameOver' => portalTimer - 16 <= 0
    ]_vars

\* C15 witness: a bonus-world tick left the player to the right of a pipe
\* that is still unmarked
C15_Witness ==
  /\ lastOp = "bonus"
  /\ inSpecialWorld /\ ~gameOver
  /\ \E i \in 1..Len(pipes) : ~pipes[i].passed /\ birdX > pipes[i].x + 60

\* C16: a player whose vertical extent is inside the full gap of an unused
\* portal pipe but not fully inside its portal window passes that pipe
\* safely: a tick with horizontal overlap neither sets gameOver nor enters
\* the bonus world, and the pipe awards its passage reward of 3 in the tick
\* in which the player is first found beyond its right edge.
C16_SafePassageBesideWindow ==
  [][ NormalTickStep =>
        /\ ( \E i \in 1..Len(pipes') :
               /\ pipes'[i].isSpecial
               /\ pipes'[i].id \notin usedPortalIds
               /\ birdX' + 30 > pipes'[i].x /\ birdX' < pipes'[i].x + 60
               /\ birdY' >= pipes'[i].topHeight
               /\ birdY' + 30 <= pipes'[i].topHeight + pipes'[i].gap
               /\ ~ ( /\ 10 * birdY' >= 10 * pipes'[i].topHeight + 3 * pipes'[i].gap
                      /\ 10 * (birdY' + 30)
                           <= 10 * pipes'[i].topHeight + 7 * pipes'[i].gap ) )
            => (~gameOver' /\ ~inSpecialWorld')
        /\ \A i \in 1..Len(pipes') :
             ( /\ pipes'[i].isSpecial
               /\ ~PassedBefore(pipes'[i].id)
               /\ birdX' > pipes'[i].x + 60 )
             => (pipes'[i].passed /\ coins' >= coins + 3)
    ]_vars

\* C16 witness: an unused portal pipe whose window (125..225) the player
\* (250..280, inside the gap 50..300) never was in has been passed for +3
C16_Witness ==
  /\ lastOp = "normal"
  /\ ~gameOver /\ ~inSpecialWorld
  /\ usedPortalIds = {}
  /\ birdY = 250
  /\ coins = 3
  /\ \E i \in 1..Len(pipes) :
       /\ pipes[i].isSpecial /\ pipes[i].passed
       /\ pipes[i].topHeight = 50 /\ pipes[i].gap = 250
       /\ birdX > pipes[i].x + 60

\* C17: for every score s >= 0, getCurrentPipeGap(s) =
\* max(120, 250 - 15 * floor(s / 10)); gap(0) = 250, gap(100) = 120, the
\* function is non-increasing in s and its value lies in 120..250.
\* (Checked under GapSpec: every spawned pipe carries the gap of the score at
\* its spawn, and the score never decreases between two spawns.)
C17_PipeGapFunction ==
  /\ [](\A i \in 1..Len(pipes) :
          /\ 120 <= pipes[i].gap /\ pipes[i].gap <= 250
          /\ \A j \in 1..Len(pipes) : i < j => pipes[i].gap >= pipes[j].gap)
  /\ [][ Len(pipes') = Len(pipes) + 1 =>
           LET g == pipes'[Len(pipes')].gap
               r == 250 - 15 * (coins \div 10)
           IN  /\ g = (IF r > 120 THEN r ELSE 120)
               /\ coins = 0 => g = 250
               /\ coins = 100 => g = 120
       ]_vars

\* C17 witness: a pipe spawned at score 0 (gap 250) is followed by one
\* spawned at score 100 (gap 120)
C17_Witness ==
  /\ Len(pipes) = 2
  /\ pipes[1].gap = 250 /\ pipes[2].gap = 120
  /\ coins = 100
  /\ lastOp = "spawn"

\* C18: in every state produced by a tick the number of body segments equals
\* min(10, frogsEaten) for the frogsEaten value of that same state, also right
\* after a tick that collected one or more frogs.
C18_SegmentCountMatchesFrogs ==
  lastOp \in {"normal", "entry", "bonus", "exit", "timeout"} =>
    Len(bodySegments) = (IF frogsEaten < 10 THEN frogsEaten ELSE 10)

\* C19: in a bonus-world tick that does not time out, every uncollected frog
\* whose distance to the player's new position is below 25 is collected in
\* that tick, adding 2 to the score and 1 to frogsEaten per frog (and nothing
\* for any other frog); within a session a collected flag never reverts, so
\* each frog pays at most once.
C19_FrogCollectedOnce ==
  [][ /\ (BonusTickStep /\ portalTimer - 16 > 0) =>
           LET sx == birdX + birdDirection'.x
               sy == birdY + birdDirection'.y
               nx == IF sx < 0 THEN 0 ELSE IF sx > 370 THEN 370 ELSE sx
               ny == IF sy < 0 THEN 0 ELSE IF sy > 470 THEN 470 ELSE sy
               near == {i \in 1..Len(worldCoins) :
                          /\ ~worldCoins[i].collected
                          /\ (nx - worldCoins[i].x) * (nx - worldCoins[i].x)
                               + (ny - worldCoins[i].y) * (ny - worldCoins[i].y)
                             < 25 * 25}
           IN  /\ coins' = coins + 2 * Cardinality(near)
               /\ frogsEaten' = frogsEaten + Cardinality(near)
               /\ inSpecialWorld' =>
                    /\ Len(worldCoins') = Len(worldCoins)
                    /\ \A i \in 1..Len(worldCoins) :
                         worldCoins'[i].collected
                           <=> (worldCoins[i].collected \/ i \in near)
      /\ (inSpecialWorld /\ inSpecialWorld') =>
           /\ Len(worldCoins') = Len(worldCoins)
           /\ \A i \in 1..Len(worldCoins) :
                worldCoins[i].collected => worldCoins'[i].collected
    ]_vars

\* C19 witness: three frogs were eaten in one tick (score 5 + 6), and the
\* player has stayed within their radius for later ticks without a second
\* reward
C19_Witness ==
  /\ lastOp = "bonus"
  /\ birdX = 200 /\ birdY = 250
  /\ worldCoins[1].collected /\ worldCoins[2].collected /\ worldCoins[3].collected
  /\ frogsEaten = 3
  /\ coins = 11
  /\ portalTimer < 10 * 1000 - 2 * 16

\* C20: the score is an integer that is never negative, and no tick lowers
\* it: between resets coins changes only in ticks, by passage rewards and the
\* entry bonus (normal world) or by frog rewards (bonus world); only
\* resetGame sets it back to 0.
C20_ScoreMonotone ==
  /\ [](coins \in Nat)
  /\ [][ /\ ~ResetStep => coins' >= coins
         /\ (~ResetStep /\ coins' # coins) => TickStep
         /\ NormalTickStep =>
              coins' = coins + NewRewards(pipes', 1)
                             + (IF inSpecialWorld' THEN 5 ELSE 0)
         /\ BonusTickStep => coins' = coins + 2 * (frogsEaten' - frogsEaten)
         /\ ResetStep => coins' = 0
       ]_vars

\* C20 witness: a score of 14 made of the entry bonus (5), three frogs (6) and
\* the passage of the used portal pipe (3)
C20_Witness ==
  /\ lastOp = "normal"
  /\ coins = 14
  /\ frogsEaten = 3
  /\ 1 \in usedPortalIds
  /\ Len(pipes) > 0 /\ pipes[1].id = 1 /\ pipes[1].isSpecial /\ pipes[1].passed


\* ------------------------------------------------------------------------
\* C21: whatever the state resetGame is applied to (running, bonus world,
\* game over), the state it leaves is exactly the initial one: player at
\* (200, 250), direction (0, 0), no segments, no pipes, score 0, not started,
\* not over, normal world, no frogs, theme 0, portal timer 10 s, no exit
\* point, no entered portal, growth counter 0, not eating, empty registry.
C21_ResetYieldsInitialState ==
  lastOp = "reset" =>
    /\ birdX = 200 /\ birdY = 250
    /\ birdDirection = [x |-> 0, y |-> 0]
    /\ bodySegments = <<>>
    /\ pipes = <<>>
    /\ coins = 0
    /\ ~gameStarted /\ ~gameOver /\ ~inSpecialWorld
    /\ worldCoins = <<>>
    /\ colorTheme = 0
    /\ portalTimer = 10 * 1000
    /\ portalExit = Null /\ enteredPortal = Null
    /\ frogsEaten = 0
    /\ ~isEating
    /\ usedPortalIds = {}

\* a reset pressed right after a frog was eaten (its deferred reset is still
\* pending), with a key still held
C21_Witness == lastOp = "reset" /\ pendingResets > 0 /\ pressedKeys # {}

\* ------------------------------------------------------------------------
\* C22: while the game is not started no tick is applied and the simulation
\* state stays as it is; the step that starts it is a key-down of w, a, s or d
\* (in either case) and changes gameStarted only; a key-down while the game
\* is over changes nothing of the simulation state, so gameOver stays set.
C22_StartOnFirstKey ==
  [][ /\ ~gameStarted =>
           /\ ~TickStep
           /\ UNCHANGED <<birdX, birdY, birdDirection, bodySegments, pipes, coins,
                          gameOver, inSpecialWorld, worldCoins, colorTheme,
                          portalTimer, portalExit, enteredPortal, frogsEaten,
                          usedPortalIds>>
      /\ (~gameStarted /\ gameStarted') =>
           /\ lastOp' = "keydown"
           /\ lastKey' \in {"w", "a", "s", "d", "W", "A", "S", "D"}
           /\ UNCHANGED <<birdX, birdY, birdDirection, bodySegments, pipes, coins,
                          gameOver, inSpecialWorld, worldCoins, colorTheme,
                          portalTimer, portalExit, enteredPortal, frogsEaten,
                          isEating, usedPortalIds>>
      /\ (gameOver /\ lastOp' = "keydown") => (gameOver' /\ UNCHANGED gameVars)
    ]_vars

\* the first tick of a game started by one key-down
C22_Witness == lastOp = "normal" /\ clock = 1 /\ keyEvents = 1 /\ Len(pipes) = 1

\* ------------------------------------------------------------------------
\* C23: the displacement of a tick is +4 vertically if s is held, else -4 if
\* w is held, else 0, and +4 horizontally if d is held, else -4 if a is
\* held, else 0; the stored birdDirection is that vector.

\* the vector the claim derives from the held keys
HeldVector ==
  [x |-> IF "d" \in pressedKeys THEN 4 ELSE IF "a" \in pressedKeys THEN -4 ELSE 0,
   y |-> IF "s" \in pressedKeys THEN 4 ELSE IF "w" \in pressedKeys THEN -4 ELSE 0]

\* the tick stores the vector and moves the player by it (clamped to the
\* arena; the exit tick then puts the player at the return position)
StoresAndApplies ==
  /\ birdDirection' = HeldVector
  /\ lastOp' # "exit" =>
       /\ birdX' = Max(0, Min(370, birdX + HeldVector.x))
       /\ birdY' = Max(0, Min(470, birdY + HeldVector.y))

C24_OtherKeysIgnored ==
  [][ (lastKey' # NoKey /\ lastKey' \notin {"w", "a", "s", "d", "W", "A", "S", "D"})
        => UNCHANGED <<gameVars, pressedKeys>> ]_vars

\* p pressed in the bonus world while a movement key is held
C24_Witness ==
  /\ lastOp = "ignored" /\ lastKey = "p"
  /\ inSpecialWorld /\ ~gameOver
  /\ pressedKeys # {}

\* ------------------------------------------------------------------------
\* C25: the deferred reset of the eating flag sets isEating to false and
\* leaves every other field of the state it is applied to as it is; a tick
\* either keeps isEating or overwrites it with "a frog was collected in this
\* tick", so the order of a pending reset and a tick, a reset or the end of
\* the game shows in isEating only.
DeferredStep == lastOp' = "deferred" /\ pendingResets' = pendingResets - 1

C25_DeferredResetOnlyClearsEating ==
  [][ /\ DeferredStep =>
           /\ ~isEating'
           /\ UNCHANGED <<birdX, birdY, birdDirection, bodySegments, pipes, coins,
                          gameStarted, gameOver, inSpecialWorld, worldCoins,
                          colorTheme, portalTimer, portalExit, enteredPortal,
                          frogsEaten, usedPortalIds, pressedKeys>>
      /\ TickStep =>
           isEating' = IF inSpecialWorld /\ lastOp' # "timeout"
                       THEN frogsEaten' > frogsEaten
                       ELSE isEating
      /\ ResetStep => ~isEating'
    ]_vars

\* the reset ran after the player had left the bonus world with the frog
C25_Witness ==
  /\ lastOp = "deferred"
  /\ frogsEaten > 0 /\ coins > 0
  /\ ~inSpecialWorld /\ ~isEating

\* ------------------------------------------------------------------------
\* C30: a normal-world tick appends a pipe exactly when, after moving the
\* pipes by 2 and dropping those at x <= -60, the list is empty or its last
\* pipe has x < 200; the new pipe has x = 400, passed = false, the gap of
\* the score at the start of the tick, a gap-start height in [50, 250) and an
\* id no pipe spawned before in that game has.
KeptAfterMove ==
  LET moved == [i \in 1..Len(pipes) |-> [pipes[i] EXCEPT !.x = @ - 2]]
  IN  SelectSeq(moved, LAMBDA q : q.x > -60)

SpawnDue == Len(KeptAfterMove) = 0 \/ KeptAfterMove[Len(KeptAfterMove)].x < 200

\* ids handed out so far in this game are below the next one
IdsBelowNext ==
  /\ \A i \in 1..Len(pipes) : pipes[i].id < nextPipeId
  /\ \A id \in usedPortalIds : id < nextPipeId

C30_SpawnRule ==
  /\ []IdsBelowNext
  /\ [][NormalTickStep =>
          LET n == Len(pipes') IN
          /\ n = Len(KeptAfterMove) + (IF SpawnDue THEN 1 ELSE 0)
          /\ \A i \in 1..Len(KeptAfterMove) :
                /\ pipes'[i].id = KeptAfterMove[i].id
                /\ pipes'[i].x = KeptAfterMove[i].x
          /\ SpawnDue =>
                /\ pipes'[n].x = 400
                /\ pipes'[n].passed = FALSE
                /\ pipes'[n].gap = Max(120, 250 - (coins \div 10) * 15)
                /\ pipes'[n].topHeight >= 50 /\ pipes'[n].topHeight < 250
                /\ pipes'[n].id = nextPipeId
                /\ nextPipeId' = nextPipeId + 1
          /\ ~SpawnDue => nextPipeId' = nextPipeId
       ]_vars

\* the second pipe, spawned when the first one has come to x = 198, with the
\* narrower gap of a score that has reached 10 by then
C30_Witness ==
  /\ lastOp = "normal"
  /\ Len(pipes) = 2
  /\ pipes[1].x = 198 /\ pipes[2].x = 400
  /\ pipes[2].id = 2
  /\ pipes[2].gap < pipes[1].gap

\* ------------------------------------------------------------------------
\* C26: while invincibility is active a tick in which the player overlaps an
\* unused obstacle outside its gap does not end the game; the timer goes
\* down by the frame time each tick and the flag is cleared when it reaches
\* 0, after which such a crossing does end the game; the bonus-world timeout
\* ends the game whether or not the player is invincible.
C26_InvincibilitySuppressesCollision ==
  /\ (lastOp \in {"normal", "entry"} /\ ext.crossing) => (gameOver <=> ~ext.shielded)
  /\ (lastOp \in {"normal", "bonus", "exit"} /\ ext.shielded) =>
       /\ ext.invincibilityTimer < ext.timerBefore
       /\ ext.invincibilityTimer =
            (IF ext.timerBefore > 16 THEN ext.timerBefore - 16 ELSE 0)
  /\ ext.invincible <=> ext.invincibilityTimer > 0
  /\ lastOp = "timeout" => gameOver

\* the player, at the bottom of the arena since tick 68, was inside the
\* first pipe from tick 86 on, invincible up to tick 100; tick 101 ends the game
C26_Witness ==
  /\ lastOp = "normal"
  /\ gameOver
  /\ ext.crossing /\ ~ext.shielded
  /\ clock = 101
  /\ birdY = MAX_Y

\* ------------------------------------------------------------------------
\* C27: collecting an adverse frog sets the score to max(0, score - 10) (a
\* score below 10 goes to 0, never below) and leaves the growth counter as it
\* was; the growth counter grows by the normal frogs collected only.
C27_AdverseFrogPenalty ==
  /\ coins >= 0
  /\ lastOp \in {"bonus", "exit"} =>
       /\ frogsEaten = ext.growthBefore + ext.normalNow
       /\ (ext.adverseNow = 1 /\ ext.normalNow = 0) =>
            /\ coins = (IF ext.scoreBefore - 10 > 0 THEN ext.scoreBefore - 10 ELSE 0)
            /\ frogsEaten = ext.growthBefore
            /\ ext.adverseReaction

\* an adverse frog collected at a score of 6 leaves 0
C27_Witness ==
  /\ lastOp \in {"bonus", "exit"}
  /\ ext.adverseNow = 1 /\ ext.normalNow = 0
  /\ ext.scoreBefore = 6
  /\ coins = 0

\* ------------------------------------------------------------------------
\* C28: every entry resolves exactly one mini-game and adds its bonus to the
\* entry bonus; the bonus is 2..12 for dice, the sum of two distinct cards
\* of the hand for cards, 1..10 for the spinner and 5..20 for the treasure.
C28_MiniGameBonusRanges ==
  /\ ext.resolved = ext.entries
  /\ ext.entries = Cardinality(usedPortalIds)
  /\ lastOp = "entry" =>
       /\ ext.miniGame # Null
       /\ coins = ext.scoreBefore + 5 + ext.miniGame.bonus
  /\ ext.miniGame # Null =>
       LET g == ext.miniGame IN
       /\ g.kind \in {"dice", "cards", "spinner", "treasure"}
       /\ g.kind = "dice" => g.bonus \in 2..12
       /\ g.kind = "cards" =>
            \E i \in 1..5, j \in 1..5 : i # j /\ g.bonus = CardHand[i] + CardHand[j]
       /\ g.kind = "spinner" => g.bonus \in 1..10
       /\ g.kind = "treasure" => g.bonus \in 5..20

\* two sixes at the entry: 5 + 12
C28_Witness ==
  /\ lastOp = "entry"
  /\ ext.miniGame # Null
  /\ ext.miniGame.kind = "dice" /\ ext.miniGame.payload = <<6, 6>>
  /\ coins = 17

PipeScrolls(id) ==
  LET p == pipes[PipeById(pipes, id)] IN
  IF p.x - 2 > -60
  THEN HasPipe(pipes', id) /\ pipes'[PipeById(pipes', id)].x = p.x - 2
  ELSE ~HasPipe(pipes', id)

PipeIds(ps) == {ps[i].id : i \in 1..Len(ps)}

C31_PipeMotionAndRemoval ==
  /\ [](\A i \in 1..Len(pipes) : -60 < pipes[i].x /\ pipes[i].x <= 400)
  /\ [][NormalTickStep => \A id \in PipeIds(pipes) : PipeScrolls(id)]_vars

\* the first pipe has been removed at the left edge, its successor scrolls on
C31_Witness ==
  /\ lastOp = "normal"
  /\ Len(pipes) > 0
  /\ pipes[1].id = 2
  /\ pipes[1].x < 142

RemovedIds == PipeIds(pipes) \ PipeIds(pipes')

C38_RemovedPipesWerePassed ==
  [][NormalTickStep /\ ~gameOver
       => \A id \in RemovedIds : pipes[PipeById(pipes, id)].passed]_vars

\* C38 (amended): a removed pipe was last scanned at x = -58, and the tick of
\* that scan leaves it marked passed unless the player's x is at most 2 (the
\* pipe's right edge): a player at the left wall never clears a pipe.
C38_RemovedPipesPassedUnlessAtLeftWall ==
  /\ [](lastOp \in {"normal", "entry"}
         => \A i \in 1..Len(pipes) :
              pipes[i].x = -58 => pipes[i].passed \/ birdX <= 2)
  /\ [][NormalTickStep /\ ~gameOver
         => \A id \in RemovedIds : pipes[PipeById(pipes, id)].x = -58]_vars

\* the first pipe was passed, rewarded and then removed with the player away
\* from the left wall
C38_Witness ==
  /\ lastOp = "normal"
  /\ ~gameOver
  /\ Len(pipes) > 0
  /\ pipes[1].id = 2
  /\ birdX > 2
  /\ coins > 0

\* ------------------------------------------------------------------------
\* C34: a pipe whose id is in usedPortalIds is inert: no tick sets gameOver
\* because of it, even with the player inside its wall, and it never triggers
\* an entry; it still scrolls, is still removed at the left edge and still
\* awards its passage reward of 3 once when passed.
HitsActivePipe ==
  \E j \in 1..Len(pipes') :
    /\ pipes'[j].id \notin usedPortalIds
    /\ birdX' + 30 > pipes'[j].x /\ birdX' < pipes'[j].x + 60
    /\ birdY' < pipes'[j].topHeight
       \/ birdY' + 30 > pipes'[j].topHeight + pipes'[j].gap

UsedPipeStep(id) ==
  LET p == pipes[PipeById(pipes, id)] IN
  /\ PipeScrolls(id)
  /\ inSpecialWorld' => triggerPortal'.id # id
  /\ HasPipe(pipes', id) =>
       LET q == pipes'[PipeById(pipes', id)] IN
       /\ q.passed <=> p.passed \/ birdX' > q.x + 60
       /\ q.passed /\ ~p.passed => coins' >= coins + 3

C34_UsedPipeInert ==
  [][NormalTickStep
       => /\ gameOver' => HitsActivePipe
          /\ \A id \in PipeIds(pipes) \cap usedPortalIds : UsedPipeStep(id)
          /\ coins' = coins + NewRewards(pipes', 1) + (IF inSpecialWorld' THEN 5 ELSE 0)
    ]_vars

\* the player lies inside the upper wall of a used portal pipe and the game
\* goes on
C34_Witness ==
  /\ lastOp = "normal"
  /\ ~gameOver
  /\ \E i \in 1..Len(pipes) :
       /\ pipes[i].id \in usedPortalIds
       /\ birdX + 30 > pipes[i].x /\ birdX < pipes[i].x + 60
       /\ birdY < pipes[i].topHeight

\* ------------------------------------------------------------------------
\* C32: a bonus-world session ends within 625 ticks: while it lasts the
\* countdown lies in 1..10000 ms, every tick either ends the session (exit or
\* timeout) or lowers the countdown by 16, and no other step raises it.
\* (In IEEE doubles 10 - 625 * 0.016 ends at -8.8e-15, so the 625th tick is
\* the timeout there as well.)
InSession == inSpecialWorld /\ ~gameOver

C32_SessionEndsWithin625Ticks ==
  /\ [](InSession => 0 < portalTimer /\ portalTimer <= 625 * 16)
  /\ [][InSession
         => IF TickStep
            THEN ~InSession' \/ portalTimer' = portalTimer - 16
            ELSE ~inSpecialWorld' \/ portalTimer' <= portalTimer]_vars

\* 624 ticks of a session have passed and the session still lasts
C32_Witness ==
  /\ lastOp = "bonus"
  /\ InSession
  /\ portalTimer = 16

\* ------------------------------------------------------------------------
\* C33: the exit point is assigned by the entry tick and keeps its value
\* until the exit tick, and the exit transition is taken exactly in the first
\* bonus-world tick, not timing out, whose new player position is at
\* distance below 30 from that stored point.
C33_ExitPointFixedOnEntry ==
  [][ /\ EntryStep => portalExit' # Null
      /\ inSpecialWorld /\ inSpecialWorld' => portalExit' = portalExit
      /\ BonusTickStep /\ portalExit # Null /\ portalTimer > 16
           => (~inSpecialWorld'
                 <=> Within(newBirdX, newBirdY, portalExit.x, portalExit.y, 30))
    ]_vars

\* ------------------------------------------------------------------------
\* C35: once a tick that collected a frog has set isEating, the flag stays
\* true until the deferred reset scheduled by that tick, or resetGame, runs;
\* a tick that collects nothing does not clear it.
C35_EatingHeldUntilReset ==
  [][isEating /\ pendingResets > 0 /\ ~DeferredStep /\ ~ResetStep
       => isEating']_vars

\* ------------------------------------------------------------------------
\* C37: the first normal-world tick after an exit tick never sets gameOver
\* when no movement key is held.
C37_SafeReturn ==
  [][lastOp = "exit" /\ NormalTickStep /\ pressedKeys = {} => ~gameOver']_vars

====
